---- MODULE Spec2Model ----
(***************************************************************************)
(* solar_analyses: the time encoder, the posterior extractor, the summary  *)
(* statistics, the prediction comparator and the submission of the         *)
(* generative model to Stan, as a state machine of calls.                  *)
(*                                                                         *)
(* The package is a set of functions called one after another by a single  *)
(* thread.  The state is the call being served: its arguments (args), what *)
(* it returned or raised (ret), the position inside fit_model (pc), what   *)
(* has been handed to the inference engine (engine) and the caller's       *)
(* tables as the call left them (heap).                                    *)
(***************************************************************************)
EXTENDS Integers, Naturals, Sequences, FiniteSets, TLC

VARIABLES pc, args, ret, engine, heap

vars == <<pc, args, ret, engine, heap>>

(***************************************************************************)
(* Bounds of the model                                                     *)
(***************************************************************************)
\* number of posterior draws (rows of stan_fit)
NDraws == 2
\* most columns of a posterior table
MaxCols == 3
\* most target dates handed to an extraction
MaxDates == 3
\* longest run of consecutive dates handed to date_to_offset_in_year
MaxRun == 3

(***************************************************************************)
(* Generic helpers                                                         *)
(***************************************************************************)
Range(s) == {s[i] : i \in DOMAIN s}

RECURSIVE SumSeq(_)
SumSeq(s) == IF s = <<>> THEN 0 ELSE Head(s) + SumSeq(Tail(s))

MinOf(S) == CHOOSE m \in S : \A x \in S : m <= x
MaxOf(S) == CHOOSE m \in S : \A x \in S : x <= m

\* sequences of distinct elements of S, of length at most n
RECURSIVE DistinctSeqs(_, _)
DistinctSeqs(S, n) ==
  IF n = 0 THEN {<<>>}
  ELSE LET shorter == DistinctSeqs(S, n - 1)
       IN shorter \cup UNION {{Append(s, x) : x \in S \ Range(s)} :
                                s \in {t \in shorter : Len(t) = n - 1}}

Raise(exc) == [status |-> exc, value |-> <<>>]
Return(v) == [status |-> "ok", value |-> v]

(***************************************************************************)
(* Calendar: what pandas' DatetimeIndex gives for a proleptic Gregorian    *)
(* date (year, month, day)                                                 *)
(***************************************************************************)
Date(y, m, d) == [year |-> y, month |-> m, day |-> d]

is_leap_year(y) == (y % 4 = 0) /\ ((y % 100 # 0) \/ (y % 400 = 0))

DaysInMonth(y, m) ==
  IF m = 2 THEN (IF is_leap_year(y) THEN 29 ELSE 28)
  ELSE IF m \in {4, 6, 9, 11} THEN 30 ELSE 31

RECURSIVE DaysBeforeMonth(_, _)
DaysBeforeMonth(y, m) ==
  IF m = 1 THEN 0 ELSE DaysBeforeMonth(y, m - 1) + DaysInMonth(y, m - 1)

day_of_year(date) == DaysBeforeMonth(date.year, date.month) + date.day

YearLength(y) == IF is_leap_year(y) THEN 366 ELSE 365

\* the n-th day of year y
DateOfDay(y, n) ==
  LET m == CHOOSE k \in 1..12 :
             DaysBeforeMonth(y, k) < n /\ n <= DaysBeforeMonth(y, k) + DaysInMonth(y, k)
  IN Date(y, m, n - DaysBeforeMonth(y, m))

\* date + k days, for k of at most a year
AddDays(date, k) ==
  LET n == day_of_year(date) + k
  IN IF n <= YearLength(date.year) THEN DateOfDay(date.year, n)
     ELSE DateOfDay(date.year + 1, n - YearLength(date.year))

\* pd.date_range(start, periods = n): n consecutive days
DateRange(start, n) == [i \in 1..n |-> AddDays(start, i - 1)]

DatesOfYear(y) ==
  {Date(y, m, d) : m \in 1..12, d \in 1..31} \
  {dt \in {Date(y, m, d) : m \in 1..12, d \in 1..31} : dt.day > DaysInMonth(y, dt.month)}

(***************************************************************************)
(* Strings: a column name is the sequence of its characters                *)
(***************************************************************************)
DigitChars == <<"0", "1", "2", "3", "4", "5", "6", "7", "8", "9">>

IsDigit(c) == c \in Range(DigitChars)
DigitVal(c) == (CHOOSE i \in DOMAIN DigitChars : DigitChars[i] = c) - 1

\* str.startswith
StartsWith(s, prefix) ==
  Len(prefix) <= Len(s) /\ SubSeq(s, 1, Len(prefix)) = prefix

\* str.replace(old, new): every non-overlapping occurrence, left to right
RECURSIVE Replace(_, _, _)
Replace(s, old, new) ==
  IF Len(s) < Len(old) THEN s
  ELSE IF SubSeq(s, 1, Len(old)) = old
       THEN new \o Replace(SubSeq(s, Len(old) + 1, Len(s)), old, new)
       ELSE <<Head(s)>> \o Replace(Tail(s), old, new)

\* what int() accepts among the characters used here: decimal digits, with
\* single underscores between digits
IsIntLiteral(s) ==
  /\ Len(s) > 0
  /\ \A i \in DOMAIN s : IsDigit(s[i]) \/ s[i] = "_"
  /\ IsDigit(s[1]) /\ IsDigit(s[Len(s)])
  /\ \A i \in 1..(Len(s) - 1) : ~(s[i] = "_" /\ s[i + 1] = "_")

RECURSIVE ParseDigits(_, _)
ParseDigits(s, acc) ==
  IF s = <<>> THEN acc
  ELSE IF Head(s) = "_" THEN ParseDigits(Tail(s), acc)
  ELSE ParseDigits(Tail(s), 10 * acc + DigitVal(Head(s)))

ParseInt(s) == ParseDigits(s, 0)

(***************************************************************************)
(* Tables: a pandas.DataFrame is its row labels (index), its column labels *)
(* (columns) and its cells, values[r][c]                                   *)
(***************************************************************************)
Frame(index, columns, values) ==
  [index |-> index, columns |-> columns, values |-> values]

\* the subsequence of s at the positions in keep, in the order of s
RECURSIVE Pick(_, _, _)
Pick(s, keep, i) ==
  IF i > Len(s) THEN <<>>
  ELSE (IF i \in keep THEN <<s[i]>> ELSE <<>>) \o Pick(s, keep, i + 1)

\* frame.loc[:, mask]
SelectColumns(frame, keep) ==
  Frame(frame.index,
        Pick(frame.columns, keep, 1),
        [r \in DOMAIN frame.values |-> Pick(frame.values[r], keep, 1)])

\* frame.rename(columns = lambda x: x.replace(old, ""))
RenameColumns(frame, old) ==
  Frame(frame.index,
        [c \in DOMAIN frame.columns |-> Replace(frame.columns[c], old, <<>>)],
        frame.values)

\* frame.transpose()
Transpose(frame) ==
  Frame(frame.columns,
        frame.index,
        [c \in DOMAIN frame.columns |->
           [r \in DOMAIN frame.index |-> frame.values[r][c]]])

HasDuplicates(s) == \E i, j \in DOMAIN s : i # j /\ s[i] = s[j]

\* the decimal digits of a natural number, most significant first
RECURSIVE Digits(_)
Digits(n) == IF n < 10 THEN <<n>> ELSE Append(Digits(n \div 10), n % 10)

\* a < b in the order of Python strings, for digit strings
RECURSIVE LexLess(_, _)
LexLess(a, b) ==
  IF b = <<>> THEN FALSE
  ELSE IF a = <<>> THEN TRUE
  ELSE IF Head(a) # Head(b) THEN Head(a) < Head(b)
  ELSE LexLess(Tail(a), Tail(b))

RemoveAt(s, i) == SubSeq(s, 1, i - 1) \o SubSeq(s, i + 1, Len(s))

\* the labels ordered as the strings they were read from
RECURSIVE SortedAsStrings(_)
SortedAsStrings(labels) ==
  IF labels = <<>> THEN <<>>
  ELSE LET i == CHOOSE k \in DOMAIN labels :
                  \A j \in DOMAIN labels :
                     ~LexLess(Digits(labels[j]), Digits(labels[k]))
       IN <<labels[i]>> \o SortedAsStrings(RemoveAt(labels, i))

\* sorted(ts.columns): ascending order of the integers
RECURSIVE Sorted(_)
Sorted(labels) ==
  IF labels = <<>> THEN <<>>
  ELSE LET i == CHOOSE k \in DOMAIN labels :
                  \A j \in DOMAIN labels : labels[k] <= labels[j]
       IN <<labels[i]>> \o Sorted(RemoveAt(labels, i))

\* ts.columns.astype(int): int() of every label, ValueError if one is no integer
ColumnsAsInt(ts) ==
  IF \A c \in DOMAIN ts.columns : IsIntLiteral(ts.columns[c])
  THEN Return(Frame(ts.index,
                    [c \in DOMAIN ts.columns |-> ParseInt(ts.columns[c])],
                    ts.values))
  ELSE Raise("ValueError")

\* ts.reindex(labels, axis = 1): the columns in the order of labels; pandas
\* refuses to reindex an axis that holds a label twice
Reindex(ts, labels) ==
  IF HasDuplicates(ts.columns) THEN Raise("ValueError")
  ELSE LET at(l) == CHOOSE c \in DOMAIN ts.columns : ts.columns[c] = l
       IN Return(Frame(ts.index,
                       labels,
                       [r \in DOMAIN ts.values |->
                          [k \in DOMAIN labels |-> ts.values[r][at(labels[k])]]]))

\* a plausible slip: the new labels are cut or padded to the number of columns
SetColumnsToFit(ts, labels) ==
  LET n == IF Len(labels) < Len(ts.columns) THEN Len(labels) ELSE Len(ts.columns)
  IN Return(Frame(ts.index,
                  SubSeq(labels, 1, n),
                  [r \in DOMAIN ts.values |-> SubSeq(ts.values[r], 1, n)]))

\* ts.columns = labels: pandas raises ValueError (length mismatch) unless there
\* is one label per column
SetColumns(ts, labels) ==
  IF Len(labels) # Len(ts.columns) THEN Raise("ValueError")
  ELSE Return(Frame(ts.index, labels, ts.values))

(***************************************************************************)
(* Objects: heap maps the names of the tables in use to what they hold     *)
(***************************************************************************)
\* a plausible slip: the method changes from itself (inplace = True, or a view
\* in place of a copy)
DeriveInPlace(objects, from, to, value) ==
  (to :> value) @@ [objects EXCEPT ![from] = value]

\* to = from.method(...): pandas returns a new table, from is left as it was
Derive(objects, from, to, value) == (to :> value) @@ objects

\* name.columns = ...: the table bound to name is changed in place
Assign(objects, name, value) == [objects EXCEPT ![name] = value]

(***************************************************************************)
(* utilities.extract_posterior_timeseries                                  *)
(***************************************************************************)
DOT == <<".">>

\* the body of extract_posterior_timeseries on the caller's tables df and
\* stan_fit: what it returns or raises, and the tables as it leaves them.
\* df.index is an attribute of a DataFrame; any other object raises
\* AttributeError
extract_posterior_timeseries_body(parameter, objects) ==
  LET h1 == Derive(objects, "stan_fit", "ts",
                   SelectColumns(objects.stan_fit,
                     {c \in DOMAIN objects.stan_fit.columns :
                        StartsWith(objects.stan_fit.columns[c], parameter)}))
      h2 == Derive(h1, "ts", "ts", RenameColumns(h1.ts, parameter \o DOT))
      asint == ColumnsAsInt(h2.ts)
  IN IF asint.status # "ok" THEN [ret |-> asint, heap |-> h2]
     ELSE LET h3 == Assign(h2, "ts", asint.value)
              sorted == Reindex(h3.ts, Sorted(h3.ts.columns))
          IN IF sorted.status # "ok" THEN [ret |-> sorted, heap |-> h3]
             ELSE LET h4 == Derive(h3, "ts", "ts", sorted.value)
                      dated == IF "index" \in DOMAIN h4.df
                               THEN SetColumns(h4.ts, h4.df.index)
                               ELSE Raise("AttributeError")
                  IN IF dated.status # "ok" THEN [ret |-> dated, heap |-> h4]
                     ELSE LET h5 == Assign(h4, "ts", dated.value)
                              h6 == Derive(h5, "ts", "ts", Transpose(h5.ts))
                          IN [ret |-> Return(h6.ts), heap |-> h6]

extract_posterior_timeseries(parameter, df, stan_fit) ==
  extract_posterior_timeseries_body(parameter, [df |-> df, stan_fit |-> stan_fit]).ret

(***************************************************************************)
(* Inputs of the posterior extractor                                       *)
(***************************************************************************)
\* names a posterior table may hold: x.1 x.2 x.10 x.01 x_ref.1 x_min y.1
ColumnNames ==
  { <<"x", ".", "1">>, <<"x", ".", "2">>,
    <<"x", ".", "1", "0">>, <<"x", ".", "0", "1">>,
    <<"x", "_", "r", "e", "f", ".", "1">>, <<"x", "_", "m", "i", "n">>,
    <<"y", ".", "1">> }

\* prefixes asked for: x and x_ref
Parameters == { <<"x">>, <<"x", "_", "r", "e", "f">> }

PosteriorColumns == DistinctSeqs(ColumnNames, MaxCols)

\* the table the sampler returns for these columns: one row per draw, every
\* cell a different sample value
PosteriorTable(cols) ==
  Frame([r \in 1..NDraws |-> r - 1],
        cols,
        [r \in 1..NDraws |-> [c \in DOMAIN cols |-> (c - 1) * NDraws + r]])

\* the day the installation was switched on
FirstDay == Date(2022, 12, 21)

(***************************************************************************)
(* The state machine                                                       *)
(***************************************************************************)
NoCall == [op |-> "none"]
NoResult == [status |-> "none", value |-> <<>>]
NoSubmission == [submitted |-> FALSE, built |-> FALSE, sampled |-> FALSE, data |-> <<>>]
\* no table of a caller is in use
NoObjects == <<>>

Init ==
  /\ pc = "idle"
  /\ args = NoCall
  /\ ret = NoResult
  /\ engine = NoSubmission
  /\ heap = NoObjects

\* a call of utilities.extract_posterior_timeseries
ExtractPosteriorTimeseries ==
  /\ pc = "idle"
  /\ \E parameter \in Parameters, cols \in PosteriorColumns, n \in 0..MaxDates :
       LET df == [index |-> DateRange(FirstDay, n)]
           stan_fit == PosteriorTable(cols)
       IN /\ args' = [op |-> "extract_posterior_timeseries",
                      parameter |-> parameter, df |-> df, stan_fit |-> stan_fit]
          /\ ret' = extract_posterior_timeseries(parameter, df, stan_fit)
          /\ heap' = LET after == extract_posterior_timeseries_body(
                                    parameter, [df |-> df, stan_fit |-> stan_fit]).heap
                     IN [df |-> after.df, stan_fit |-> after.stan_fit]
  /\ pc' = "returned"
  /\ UNCHANGED engine

(***************************************************************************)
(* Properties of the posterior extractor                                   *)
(***************************************************************************)
Extracted == pc = "returned" /\ args.op = "extract_posterior_timeseries"

\* name is parameter, a dot and an integer: "<prefix>.<k>"
IsIndexed(name, parameter) ==
  /\ StartsWith(name, parameter \o DOT)
  /\ IsIntLiteral(SubSeq(name, Len(parameter) + 2, Len(name)))

SuffixOf(name, parameter) == ParseInt(SubSeq(name, Len(parameter) + 2, Len(name)))

\* the positions of the table's columns that begin with the prefix
Matching(stan_fit, parameter) ==
  {c \in DOMAIN stan_fit.columns : StartsWith(stan_fit.columns[c], parameter)}

\* the position of the column whose suffix is the i-th smallest of all
ColumnOfRank(stan_fit, parameter, i) ==
  CHOOSE c \in Matching(stan_fit, parameter) :
    Cardinality({d \in Matching(stan_fit, parameter) :
                   SuffixOf(stan_fit.columns[d], parameter)
                     < SuffixOf(stan_fit.columns[c], parameter)}) = i - 1

\* the columns of the prefix are all "<prefix>.<k>", with different k, one per date
WellFormedFor(stan_fit, parameter, df) ==
  /\ \A c \in Matching(stan_fit, parameter) : IsIndexed(stan_fit.columns[c], parameter)
  /\ \A c, d \in Matching(stan_fit, parameter) :
       c # d => SuffixOf(stan_fit.columns[c], parameter)
                  # SuffixOf(stan_fit.columns[d], parameter)
  /\ Cardinality(Matching(stan_fit, parameter)) = Len(df.index)

\* C1: whatever the order of the columns "<prefix>.<k>" in the posterior table,
\* the extraction returns one row per target date, in the order of the dates,
\* and the i-th row holds, draw by draw, the column whose suffix k is the i-th
\* smallest as an integer (x.2 before x.10)
C1_NumericOrderOntoDates ==
  Extracted =>
    LET stan_fit == args.stan_fit
        parameter == args.parameter
        df == args.df
    IN /\ WellFormedFor(stan_fit, parameter, df) => ret.status = "ok"
       /\ ret.status = "ok" =>
            /\ WellFormedFor(stan_fit, parameter, df)
            /\ ret.value.index = df.index
            /\ ret.value.columns = stan_fit.index
            /\ \A i \in DOMAIN df.index : \A r \in DOMAIN stan_fit.index :
                 ret.value.values[i][r]
                   = stan_fit.values[r][ColumnOfRank(stan_fit, parameter, i)]

\* x.10 stands before x.2 in the table, among three columns or more
C1_Witness ==
  /\ Extracted
  /\ ret.status = "ok"
  /\ Len(args.df.index) >= 3
  /\ \E c, d \in DOMAIN args.stan_fit.columns :
       /\ c < d
       /\ args.stan_fit.columns[c] = <<"x", ".", "1", "0">>
       /\ args.stan_fit.columns[d] = <<"x", ".", "2">>

\* C2: when the number of columns that match the prefix differs from the number
\* of target dates, the extraction raises and returns no series
C2_ShapeMismatchRaises ==
  Extracted /\ Cardinality(Matching(args.stan_fit, args.parameter)) # Len(args.df.index)
    => ret.status # "ok" /\ ret.value = <<>>

\* three columns x.<k> for two dates: only the number of dates is wrong
C2_Witness ==
  /\ Extracted
  /\ \A c \in Matching(args.stan_fit, args.parameter) :
       IsIndexed(args.stan_fit.columns[c], args.parameter)
  /\ Cardinality(Matching(args.stan_fit, args.parameter)) = 3
  /\ Len(args.df.index) = 2
  /\ ret.status = "ValueError"

\* the table without the columns that begin with the prefix and are not
\* "<prefix>.<k>"
WithoutLookalikes(stan_fit, parameter) ==
  SelectColumns(stan_fit,
    {c \in DOMAIN stan_fit.columns :
       StartsWith(stan_fit.columns[c], parameter)
         => IsIndexed(stan_fit.columns[c], parameter)})

\* C3: the extraction reads the columns "<prefix>.<k>" and no other: a column
\* that only begins with the same text (x_ref.1, x_min for the prefix x) is not
\* in the result and does not change the outcome of the call
C3_LookalikesIgnored ==
  Extracted =>
    ret = extract_posterior_timeseries(
            args.parameter, args.df,
            WithoutLookalikes(args.stan_fit, args.parameter))

(***************************************************************************)
(* utilities.date_to_offset_in_year                                        *)
(***************************************************************************)
\* a float quotient of two integers, kept exact
Frac(n, d) == [num |-> n, den |-> d]
FracEq(a, b) == a.num * b.den = b.num * a.den
FracLess(a, b) == a.num * b.den < b.num * a.den

\* the encoding of the first script (analyses.py): every year 365 days long
date_to_offset_in_year_Mod365(dates) ==
  [i \in DOMAIN dates |-> Frac((day_of_year(dates[i]) - 1) % 365, 365)]

\* a plausible slip: the leap day is not added to the length of the year
date_to_offset_in_year_NoLeap(dates) ==
  [i \in DOMAIN dates |-> Frac(day_of_year(dates[i]) - 1, 365)]

date_to_offset_in_year(dates) ==
  [i \in DOMAIN dates |->
     Frac(day_of_year(dates[i]) - 1,
          365 + (IF is_leap_year(dates[i].year) THEN 1 ELSE 0))]

\* years of the dates encoded: a century that is no leap year, one that is, a
\* common year, a leap year
Years == {1900, 2000, 2023, 2024}

StartDates == UNION {DatesOfYear(y) : y \in Years}

\* a call of utilities.date_to_offset_in_year on a run of consecutive days
DateToOffsetInYear ==
  /\ pc = "idle"
  /\ \E start \in StartDates, n \in 1..MaxRun :
       LET dates == DateRange(start, n)
       IN /\ args' = [op |-> "date_to_offset_in_year", dates |-> dates]
          /\ ret' = Return(date_to_offset_in_year(dates))
  /\ pc' = "returned"
  /\ UNCHANGED <<engine, heap>>

(***************************************************************************)
(* Properties of the time encoder                                          *)
(***************************************************************************)
Encoded == pc = "returned" /\ args.op = "date_to_offset_in_year"

\* the number of days of the year of date up to and including date
OrdinalInYear(date) ==
  Cardinality({e \in DatesOfYear(date.year) :
                 e.month < date.month \/ (e.month = date.month /\ e.day <= date.day)})

\* C4: the i-th result is (day_of_year - 1) / L for the i-th date, L being 366
\* in a leap year and 365 otherwise; it lies in [0, 1), and December 31 of a
\* leap year gives 365/366
C4_OffsetInUnitInterval ==
  Encoded =>
    /\ Len(ret.value) = Len(args.dates)
    /\ \A i \in DOMAIN args.dates :
         LET date == args.dates[i]
             t == ret.value[i]
             L == IF is_leap_year(date.year) THEN 366 ELSE 365
         IN /\ FracEq(t, Frac(OrdinalInYear(date) - 1, L))
            /\ t.den > 0 /\ 0 <= t.num /\ t.num < t.den
            /\ (date.month = 12 /\ date.day = 31 /\ L = 366)
                 => FracEq(t, Frac(365, 366))

\* December 31 of a leap year has been encoded
C4_Witness ==
  /\ Encoded
  /\ \E i \in DOMAIN args.dates :
       /\ args.dates[i] = Date(2024, 12, 31)
       /\ ret.value[i] = Frac(365, 366)

\* C5: from one day to the next of the same year the offset grows, and it is 0
\* on every January 1
C5_MonotoneWithinYear ==
  Encoded =>
    /\ \A i \in DOMAIN args.dates :
         (args.dates[i].month = 1 /\ args.dates[i].day = 1) => ret.value[i].num = 0
    /\ \A i \in 1..(Len(args.dates) - 1) :
         args.dates[i].year = args.dates[i + 1].year
           => FracLess(ret.value[i], ret.value[i + 1])

\* a run over the end of a leap year: December 30 and 31, then January 1
C5_Witness ==
  /\ Encoded
  /\ Len(args.dates) = 3
  /\ args.dates[1] = Date(2000, 12, 30)
  /\ FracLess(ret.value[1], ret.value[2])
  /\ ret.value[3].num = 0

(***************************************************************************)
(* modelling.fit_model and the data block of the Stan program              *)
(***************************************************************************)
\* most days of observations handed to fit_model
MaxFitDays == 2

\* daily totals of the report, in kWh; a negative total is a malformed report
Productions == {-1, 0, 3}

FitStartDates == {FirstDay, Date(2024, 12, 30)}

SeqsOf(S, n) == UNION {[1..k -> S] : k \in 1..n}

\* the table of observations: one row per day, with its "Total production"
Observations(start, production) ==
  [index |-> DateRange(start, Len(production)), production |-> production]

\* stan_data of fit_model
StanData(df) ==
  [N |-> Len(df.index),
   production |-> df.production,
   t_year |-> date_to_offset_in_year(df.index)]

\* the constraints the data block declares: N >= 0, production >= 0,
\* 0 <= t_year <= 1
StanDataAccepted(data) ==
  /\ data.N >= 0
  /\ Len(data.production) = data.N /\ Len(data.t_year) = data.N
  /\ \A n \in 1..data.N : data.production[n] >= 0
  /\ \A n \in 1..data.N :
       /\ 0 <= data.t_year[n].num
       /\ data.t_year[n].num <= data.t_year[n].den

\* fit_model up to its call of stan.build: the data go to the engine as they are
FitModel ==
  /\ pc = "idle"
  /\ \E start \in FitStartDates, production \in SeqsOf(Productions, MaxFitDays) :
       LET df == Observations(start, production)
       IN /\ args' = [op |-> "fit_model", df |-> df]
          /\ engine' = [submitted |-> TRUE, built |-> FALSE, sampled |-> FALSE,
                        data |-> StanData(df)]
  /\ pc' = "stan_build"
  /\ UNCHANGED <<ret, heap>>

\* stan.build: the engine checks the data against the data block
StanBuild ==
  /\ pc = "stan_build"
  /\ IF StanDataAccepted(engine.data)
     THEN /\ engine' = [engine EXCEPT !.built = TRUE]
          /\ pc' = "stan_sample"
          /\ UNCHANGED ret
     ELSE /\ ret' = Raise("ValueError")
          /\ pc' = "returned"
          /\ UNCHANGED engine
  /\ UNCHANGED <<args, heap>>

\* stan_model.sample(...).to_frame(): the draws come back, or the sampler fails
\* and fit_model passes the failure on
StanSample ==
  /\ pc = "stan_sample"
  /\ \/ /\ engine' = [engine EXCEPT !.sampled = TRUE]
        /\ ret' = Return([draws |-> NDraws, days |-> engine.data.N])
     \/ /\ ret' = Raise("RuntimeError")
        /\ UNCHANGED engine
  /\ pc' = "returned"
  /\ UNCHANGED <<args, heap>>

(***************************************************************************)
(* Properties of the submission                                            *)
(***************************************************************************)
\* C6: nothing is handed to the inference engine unless every production is
\* non-negative and every t_year lies in [0, 1): fit_model rejects such input
\* itself, before stan.build
C6_RejectedBeforeSubmission ==
  engine.submitted =>
    /\ \A n \in DOMAIN engine.data.production : engine.data.production[n] >= 0
    /\ \A n \in DOMAIN engine.data.t_year :
         /\ 0 <= engine.data.t_year[n].num
         /\ engine.data.t_year[n].num < engine.data.t_year[n].den

(***************************************************************************)
(* plots.plot_annual_variation: the date of peak production                *)
(***************************************************************************)
\* length of the reference year, np.arange(365)
RefYearDays == 365

\* pd.to_datetime(np.arange(365), origin = "2001-01-01", unit = "D")
ReferenceDates == DateRange(Date(2001, 1, 1), RefYearDays)

\* positions in the reference year of January 3 and December 28
PeakPositions == {3, 362}

\* the peak day of every draw: any day for the first draw
PeakChoices ==
  {pk \in [1..NDraws -> 1..RefYearDays] : \A r \in 2..NDraws : pk[r] \in PeakPositions}

Abs(x) == IF x < 0 THEN -x ELSE x

\* E_optimal over the reference year: rows are the dates, columns the draws;
\* the curve of draw r rises to its peak day and falls after it
ReferenceCurves(peaks) ==
  Frame(ReferenceDates,
        [r \in DOMAIN peaks |-> r - 1],
        [d \in 1..RefYearDays |->
           [r \in DOMAIN peaks |-> RefYearDays - Abs(d - peaks[r])]])

\* of two positions of s, a before b, the one of the larger value, a on a tie
Larger(s, a, b) == IF s[b] > s[a] THEN b ELSE a

\* position of the first largest value among s[lo..hi]
RECURSIVE FirstArgMax(_, _, _)
FirstArgMax(s, lo, hi) ==
  IF lo = hi THEN lo
  ELSE Larger(s, FirstArgMax(s, lo, (lo + hi) \div 2),
                 FirstArgMax(s, (lo + hi) \div 2 + 1, hi))

\* frame.idxmax(axis = "index"): for every column the label of the row that
\* holds its first maximum
IdxMax(frame) ==
  [c \in DOMAIN frame.columns |->
     frame.index[FirstArgMax([r \in DOMAIN frame.index |-> frame.values[r][c]],
                             1, Len(frame.index))]]

\* series.value_counts(): every different value once, where it first occurs,
\* with the number of its occurrences
ValueCounts(s) ==
  LET first == {i \in DOMAIN s : \A j \in 1..(i - 1) : s[j] # s[i]}
  IN [k \in 1..Cardinality(first) |->
        LET i == CHOOSE i \in first : Cardinality({j \in first : j < i}) = k - 1
        IN [label |-> s[i], count |-> Cardinality({j \in DOMAIN s : s[j] = s[i]})]]

\* date + pd.DateOffset(years = k): the same month and day k years on, the day
\* cut to the length of the month
AddYears(date, k) ==
  Date(date.year + k, date.month,
       IF date.day > DaysInMonth(date.year + k, date.month)
       THEN DaysInMonth(date.year + k, date.month) ELSE date.day)

\* a plausible slip: June is left where it is
WrapBeforeJune(x) == AddYears(x, IF x.month < 6 THEN 1 ELSE 0)

\* lambda x: x + pd.DateOffset(years = (x.month <= 6))
WrapJanToAfterDecember(x) == AddYears(x, IF x.month <= 6 THEN 1 ELSE 0)

\* max_date_hist and the heights of its bars, max_date_hist / len(stan_fit);
\* the dates are whole days, which round("D") leaves as they are
max_date_hist(E_optimal, ndraws) ==
  LET counts == ValueCounts(IdxMax(E_optimal))
  IN [k \in DOMAIN counts |->
        [date |-> WrapJanToAfterDecember(counts[k].label),
         probability |-> Frac(counts[k].count, ndraws)]]

\* the peak-date histogram of plot_annual_variation
PeakDateDistribution ==
  /\ pc = "idle"
  /\ \E peaks \in PeakChoices :
       /\ args' = [op |-> "plot_annual_variation", peaks |-> peaks]
       /\ ret' = Return(max_date_hist(ReferenceCurves(peaks), Len(peaks)))
  /\ pc' = "returned"
  /\ UNCHANGED <<engine, heap>>

(***************************************************************************)
(* Properties of the peak-date distribution                                *)
(***************************************************************************)
PeakDated == pc = "returned" /\ args.op = "plot_annual_variation"

\* days from January 1, 2001 to date
RECURSIVE DaysBeforeYear(_)
DaysBeforeYear(y) ==
  IF y <= 2001 THEN 0
  ELSE DaysBeforeYear(y - 1) + (IF is_leap_year(y - 1) THEN 366 ELSE 365)

DayNumber(date) == DaysBeforeYear(date.year) + day_of_year(date) - 1

\* the bar of the draw whose curve peaks on the p-th day of the reference year
BarsOfPeak(p) ==
  {k \in DOMAIN ret.value :
     /\ ret.value[k].date.month = ReferenceDates[p].month
     /\ ret.value[k].date.day = ReferenceDates[p].day}

\* C7: the peak day of every draw is moved one year on when it falls in
\* January..June and left alone when it falls in July..December; peaks on
\* December 28 and January 3 stand 6 days apart, and different peak days never
\* share a bar
C7_PeakDatesWrapped ==
  PeakDated =>
    /\ \A r \in DOMAIN args.peaks :
         LET p == args.peaks[r]
             shift == IF ReferenceDates[p].month <= 6 THEN 1 ELSE 0
         IN /\ Cardinality(BarsOfPeak(p)) = 1
            /\ \A k \in BarsOfPeak(p) :
                 /\ ret.value[k].date.year = 2001 + shift
                 /\ DayNumber(ret.value[k].date) = p - 1 + shift * RefYearDays
                 /\ ret.value[k].probability.num
                      = Cardinality({q \in DOMAIN args.peaks : args.peaks[q] = p})
    /\ Len(ret.value) = Cardinality(Range(args.peaks))
    /\ \A j, k \in DOMAIN ret.value : j # k => ret.value[j].date # ret.value[k].date
    /\ \A j, k \in DOMAIN ret.value :
         (/\ ret.value[j].date.month = 12 /\ ret.value[j].date.day = 28
          /\ ret.value[k].date.month = 1 /\ ret.value[k].date.day = 3)
           => DayNumber(ret.value[k].date) - DayNumber(ret.value[j].date) = 6

\* one draw peaks on December 28, another on January 3
C7_Witness ==
  /\ PeakDated
  /\ \E j, k \in DOMAIN ret.value :
       /\ ret.value[j].date = Date(2001, 12, 28)
       /\ ret.value[k].date = Date(2002, 1, 3)

(***************************************************************************)
(* analysis.compare_with_predictions                                       *)
(***************************************************************************)
\* most days of observations handed to compare_with_predictions
MaxObs == 4

\* "Year >= 2023": the first year with complete data
CutoffYear == 2023

\* strftime("%b")
MonthAbbr ==
  <<"Jan", "Feb", "Mar", "Apr", "May", "Jun", "Jul", "Aug", "Sep", "Oct", "Nov", "Dec">>

\* the order in which groupby("Month") leaves the month names
MonthsSorted ==
  <<"Apr", "Aug", "Dec", "Feb", "Jan", "Jul", "Jun", "Mar", "May", "Nov", "Oct", "Sep">>

\* a missing value, a number, a quotient
NaN == [nan |-> TRUE, num |-> 0, den |-> 1]
Num(n) == [nan |-> FALSE, num |-> n, den |-> 1]
Quot(n, d) == [nan |-> FALSE, num |-> n, den |-> d]

\* days on which the meter may have reported, in order
ObservedDays ==
  << Date(2022, 12, 21), Date(2023, 1, 1), Date(2023, 1, 2),
     Date(2023, 2, 1), Date(2024, 1, 15), Date(2024, 2, 29) >>

\* daily totals, in kWh
ObservedTotals == {1, 3}

\* months the installer may have predicted, and the prediction for each
PredictedMonths == <<"Jan", "Feb", "Dec">>
PredictedValue(month) ==
  IF month = "Jan" THEN 100 ELSE IF month = "Feb" THEN 200 ELSE 90

\* the predictions table for the months at the positions keep
PredictionsTable(keep) ==
  LET months == Pick(PredictedMonths, keep, 1)
  IN Frame(months, <<"Production (kWh)">>,
           [r \in DOMAIN months |-> <<Num(PredictedValue(months[r]))>>])

\* frame.rename(columns = {old: new})
RenameColumn(frame, old, new) ==
  Frame(frame.index,
        [c \in DOMAIN frame.columns |->
           IF frame.columns[c] = old THEN new ELSE frame.columns[c]],
        frame.values)

\* observations[["Total production"]].assign(Month = ..., Year = ...)
WithMonthAndYear(observations) ==
  [i \in DOMAIN observations.index |->
     [Month |-> MonthAbbr[observations.index[i].month],
      Year |-> observations.index[i].year,
      total |-> observations.production[i]]]

\* a plausible slip: the early, incomplete data are kept
QueryEverything(rows) == rows

\* .query("Year >= 2023")
QueryFromCutoff(rows) == SelectSeq(rows, LAMBDA row : row.Year >= CutoffYear)

RECURSIVE SumTotals(_)
SumTotals(S) ==
  IF S = {} THEN 0
  ELSE LET t == CHOOSE t \in S : TRUE IN t.total + SumTotals(S \ {t})

\* .groupby(["Year", "Month"]).aggregate("sum"): one total per year and month
\* that has a row
MonthlyTotals(rows) ==
  {[Year |-> key[1], Month |-> key[2],
    total |-> SumSeq([i \in 1..Len(SelectSeq(rows, LAMBDA row :
                                     row.Year = key[1] /\ row.Month = key[2])) |->
                        SelectSeq(rows, LAMBDA row :
                          row.Year = key[1] /\ row.Month = key[2])[i].total])] :
     key \in {<<rows[i].Year, rows[i].Month>> : i \in DOMAIN rows}}

\* .groupby("Month").aggregate(["min", "mean", "max"]), with the columns
\* renamed: one row per month, in the order of the month names
MonthlyStatistics(totals) ==
  LET months == SelectSeq(MonthsSorted, LAMBDA m : \E t \in totals : t.Month = m)
      of(m) == {t \in totals : t.Month = m}
  IN Frame(months,
           <<"Min (kWh)", "Mean (kWh)", "Max (kWh)">>,
           [r \in DOMAIN months |->
              << Num(MinOf({t.total : t \in of(months[r])})),
                 Quot(SumTotals(of(months[r])), Cardinality(of(months[r]))),
                 Num(MaxOf({t.total : t \in of(months[r])})) >>])

\* the cells of the row labelled label, missing values where there is none
RowOrNaN(frame, label) ==
  IF \E r \in DOMAIN frame.index : frame.index[r] = label
  THEN frame.values[CHOOSE r \in DOMAIN frame.index : frame.index[r] = label]
  ELSE [c \in DOMAIN frame.columns |-> NaN]

\* a plausible slip: join = "inner", only the labels both tables hold
ConcatColumnsInner(left, right) ==
  LET index == SelectSeq(left.index, LAMBDA l : l \in Range(right.index))
  IN Frame(index,
           left.columns \o right.columns,
           [r \in DOMAIN index |->
              RowOrNaN(left, index[r]) \o RowOrNaN(right, index[r])])

\* pd.concat([left, right], axis = "columns"): the union of the row labels (the
\* labels of left, then those only right holds), missing values where a table
\* has no such row
ConcatColumns(left, right) ==
  LET index == left.index \o SelectSeq(right.index, LAMBDA l : l \notin Range(left.index))
  IN Frame(index,
           left.columns \o right.columns,
           [r \in DOMAIN index |->
              RowOrNaN(left, index[r]) \o RowOrNaN(right, index[r])])

\* the body of compare_with_predictions on the caller's tables observations
\* and predictions: what it returns, and the tables as it leaves them
compare_with_predictions_body(objects) ==
  LET h1 == Derive(objects, "predictions", "renamed",
                   RenameColumn(objects.predictions,
                                "Production (kWh)", "Predicted (kWh)"))
      h2 == Derive(h1, "observations", "monthly",
                   MonthlyStatistics(MonthlyTotals(
                     QueryFromCutoff(WithMonthAndYear(h1.observations)))))
  IN [ret |-> ConcatColumns(h2.renamed, h2.monthly), heap |-> h2]

compare_with_predictions(observations, predictions) ==
  compare_with_predictions_body(
    [observations |-> observations, predictions |-> predictions]).ret

\* a call of analysis.compare_with_predictions
CompareWithPredictions ==
  /\ pc = "idle"
  /\ \E days \in {K \in SUBSET DOMAIN ObservedDays : Cardinality(K) <= MaxObs},
        months \in SUBSET DOMAIN PredictedMonths :
       \E totals \in [1..Cardinality(days) -> ObservedTotals] :
         LET observations == [index |-> Pick(ObservedDays, days, 1), production |-> totals]
             predictions == PredictionsTable(months)
         IN /\ args' = [op |-> "compare_with_predictions",
                        observations |-> observations, predictions |-> predictions]
            /\ ret' = Return(compare_with_predictions(observations, predictions))
            /\ heap' = LET after == compare_with_predictions_body(
                                      [observations |-> observations,
                                       predictions |-> predictions]).heap
                       IN [observations |-> after.observations,
                           predictions |-> after.predictions]
  /\ pc' = "returned"
  /\ UNCHANGED engine

(***************************************************************************)
(* Properties of the prediction comparator                                 *)
(***************************************************************************)
Compared == pc = "returned" /\ args.op = "compare_with_predictions"

\* the positions of the observations of year y and month name m
DaysOf(observations, y, m) ==
  {i \in DOMAIN observations.index :
     observations.index[i].year = y /\ MonthAbbr[observations.index[i].month] = m}

RECURSIVE SumAt(_, _)
SumAt(s, K) ==
  IF K = {} THEN 0
  ELSE LET i == CHOOSE i \in K : TRUE IN s[i] + SumAt(s, K \ {i})

\* the production of year y in month m
TotalOf(observations, y, m) == SumAt(observations.production, DaysOf(observations, y, m))

\* the years from the cutoff on that have an observation in month m
RetainedYears(observations, m) ==
  {y \in {observations.index[i].year : i \in DOMAIN observations.index} :
     y >= CutoffYear /\ DaysOf(observations, y, m) # {}}

ObservedMonths(observations) ==
  {m \in Range(MonthAbbr) : RetainedYears(observations, m) # {}}

RowOf(frame, label) == CHOOSE r \in DOMAIN frame.index : frame.index[r] = label

\* C8: the result has exactly one row for every month name of the predictions
\* or of the observations from the cutoff on; the row carries the predicted
\* value where there is one and a missing value otherwise, and the observed
\* statistics where there are observations and missing values otherwise
C8_OuterJoinOnMonth ==
  Compared =>
    LET observations == args.observations
        predictions == args.predictions
        result == ret.value
    IN /\ Range(result.index) = Range(predictions.index) \cup ObservedMonths(observations)
       /\ ~HasDuplicates(result.index)
       /\ result.columns = <<"Predicted (kWh)", "Min (kWh)", "Mean (kWh)", "Max (kWh)">>
       /\ \A r \in DOMAIN result.index :
            LET m == result.index[r]
            IN /\ IF m \in Range(predictions.index)
                  THEN result.values[r][1] = predictions.values[RowOf(predictions, m)][1]
                  ELSE result.values[r][1].nan
               /\ \A c \in 2..4 :
                    result.values[r][c].nan <=> m \notin ObservedMonths(observations)

\* a month only predicted, a month only observed and a month on both sides
C8_Witness ==
  /\ Compared
  /\ args.predictions.index = <<"Jan", "Dec">>
  /\ ObservedMonths(args.observations) = {"Jan", "Feb"}
  /\ Len(ret.value.index) = 3

\* C9: for every month, Min, Mean and Max are the minimum, the mean and the
\* maximum, over the years from 2023 on, of the month's total production in
\* that year; days of earlier years count in no total and give no row
C9_MonthlyStatistics ==
  Compared =>
    LET observations == args.observations
        result == ret.value
    IN /\ \A m \in ObservedMonths(observations) :
            LET years == RetainedYears(observations, m)
                totals == {TotalOf(observations, y, m) : y \in years}
                row == result.values[RowOf(result, m)]
            IN /\ row[2] = Num(MinOf(totals))
               /\ row[4] = Num(MaxOf(totals))
               /\ ~row[3].nan
               /\ row[3].num * Cardinality(years)
                    = SumAt([y \in years |-> TotalOf(observations, y, m)], years)
                        * row[3].den
       /\ \A m \in Range(result.index) :
            m \notin Range(args.predictions.index)
              => \E i \in DOMAIN observations.index :
                   /\ observations.index[i].year >= CutoffYear
                   /\ MonthAbbr[observations.index[i].month] = m

\* a day before the cutoff, two days of January 2023 and one of January 2024,
\* December predicted: January has the totals 4 and 1, December no statistics
C9_Witness ==
  /\ Compared
  /\ args.observations.index
       = <<Date(2022, 12, 21), Date(2023, 1, 1), Date(2023, 1, 2), Date(2024, 1, 15)>>
  /\ args.observations.production = <<3, 1, 3, 1>>
  /\ args.predictions.index = <<"Dec">>
  /\ ret.value.values[RowOf(ret.value, "Jan")] = <<NaN, Num(1), Quot(5, 2), Num(4)>>
  /\ ret.value.values[RowOf(ret.value, "Dec")] = <<Num(90), NaN, NaN, NaN>>

(***************************************************************************)
(* plots.plot_weather_effect: rolling average, autocorrelation, null band  *)
(***************************************************************************)
\* most days of the weather-effect series
MaxWeatherDays == 15

\* rolling(window = 14, center = True)
Window == 14

\* lags = np.arange(0, 20)
Lags == 20

\* the course of a draw over the days: a level, and the length of the cycle
\* around it (0 for none)
WeatherShapes == { <<1, 0>>, <<1, 1>>, <<1, 2>> }

\* weather_effect: rows are the days from the first day on, columns the draws
WeatherEffect(n, shapes) ==
  Frame(DateRange(FirstDay, n),
        [r \in DOMAIN shapes |-> r - 1],
        [d \in 1..n |->
           [r \in DOMAIN shapes |->
              shapes[r][1] + (IF shapes[r][2] = 0 THEN 0 ELSE d % (shapes[r][2] + 1))]])

Column(frame, c) == [r \in DOMAIN frame.index |-> frame.values[r][c]]

\* the sum of s[lo..hi]
RECURSIVE SumFromTo(_, _, _)
SumFromTo(s, lo, hi) == IF lo > hi THEN 0 ELSE s[lo] + SumFromTo(s, lo + 1, hi)

\* frame.rolling(window, center = True).mean(): the mean of the window rows
\* around each row, missing unless all of them exist (min_periods = window)
RollingMean(frame, window) ==
  LET before == window \div 2
      after == (window - 1) \div 2
  IN Frame(frame.index, frame.columns,
           [d \in DOMAIN frame.index |->
              [c \in DOMAIN frame.columns |->
                 IF d - before >= 1 /\ d + after <= Len(frame.index)
                 THEN Quot(SumFromTo(Column(frame, c), d - before, d + after), window)
                 ELSE NaN]])

\* the k-th smallest of the numbers of s
KthSmallest(s, k) ==
  CHOOSE v \in Range(s) :
    /\ Cardinality({i \in DOMAIN s : s[i] < v}) < k
    /\ Cardinality({i \in DOMAIN s : s[i] <= v}) >= k

\* frame.median(axis = "columns") of cells of one denominator: per row the
\* median of the cells that are not missing, missing if all are
MedianOverColumns(frame) ==
  [d \in DOMAIN frame.index |->
     LET present == SelectSeq(frame.values[d], LAMBDA cell : ~cell.nan)
         nums == [i \in DOMAIN present |-> present[i].num]
         n == Len(present)
     IN IF n = 0 THEN NaN
        ELSE Quot(KthSmallest(nums, (n + 1) \div 2) + KthSmallest(nums, n \div 2 + 1),
                  2 * present[1].den)]

\* a correlation coefficient, kept exact: its sign and its square
Corr(sgn, sqnum, sqden) == [nan |-> FALSE, sgn |-> sgn, sqnum |-> sqnum, sqden |-> sqden]
CorrNaN == [nan |-> TRUE, sgn |-> 0, sqnum |-> 0, sqden |-> 1]

Sign(x) == IF x > 0 THEN 1 ELSE IF x < 0 THEN -1 ELSE 0

\* s.autocorr(lag) = s.corr(s.shift(lag)): Pearson's r over the pairs
\* (s[i], s[i - lag]); missing when there is no pair or a side does not vary
Autocorr(s, lag) ==
  LET n == Len(s) - lag
      x == [i \in 1..n |-> s[i + lag]]
      y == [i \in 1..n |-> s[i]]
      sx == SumFromTo(x, 1, n)
      sy == SumFromTo(y, 1, n)
      cov == n * SumFromTo([i \in 1..n |-> x[i] * y[i]], 1, n) - sx * sy
      vx == n * SumFromTo([i \in 1..n |-> x[i] * x[i]], 1, n) - sx * sx
      vy == n * SumFromTo([i \in 1..n |-> y[i] * y[i]], 1, n) - sy * sy
  IN IF n < 1 THEN CorrNaN
     ELSE IF vx * vy = 0 THEN CorrNaN
     ELSE Corr(Sign(cov), cov * cov, vx * vy)

\* autocorr: one row per lag, one column per draw
AutocorrByLag(frame) ==
  [l \in 1..Lags |-> [c \in DOMAIN frame.columns |-> Autocorr(Column(frame, c), l - 1)]]

(***************************************************************************)
(* Quantiles over the draws                                                *)
(***************************************************************************)
\* a < b for two numbers that are not missing, each a quotient num / den
CellLess(a, b) == a.num * b.den < b.num * a.den

\* the place of a correlation coefficient in the order of the reals: r grows
\* with sign(r) * r^2
CorrKey(r) == [nan |-> r.nan, num |-> r.sgn * r.sqnum, den |-> r.sqden]

\* a plausible slip: the values are taken in the order of the draws
InGivenOrder(values, keys) == values

\* the values in ascending order of their keys, as np.sort leaves them
RECURSIVE SortedByKey(_, _)
SortedByKey(values, keys) ==
  IF values = <<>> THEN <<>>
  ELSE LET i == CHOOSE k \in DOMAIN keys :
                  /\ \A j \in DOMAIN keys : ~CellLess(keys[j], keys[k])
                  /\ \A j \in 1..(k - 1) : CellLess(keys[k], keys[j])
       IN <<values[i]>> \o SortedByKey(RemoveAt(values, i), RemoveAt(keys, i))

\* the quantile qn / qd of the values that are not missing, by linear
\* interpolation (the default of pandas): with the n values in ascending order
\* and h = (n - 1) * q, it is lo + weight * (hi - lo) for the values lo and hi at
\* the positions floor(h) and floor(h) + 1 and weight = h - floor(h); missing
\* when every value is missing
Quantile(values, keys, qn, qd) ==
  LET present == {i \in DOMAIN keys : ~keys[i].nan}
      sorted == SortedByKey(Pick(values, present, 1), Pick(keys, present, 1))
      n == Len(sorted)
      h == (n - 1) * qn
      lo == h \div qd + 1
      hi == IF lo < n THEN lo + 1 ELSE n
  IN IF n = 0
     THEN [nan |-> TRUE, lo |-> values[1], hi |-> values[1], weight |-> Frac(0, 1)]
     ELSE [nan |-> FALSE, lo |-> sorted[lo], hi |-> sorted[hi],
           weight |-> Frac(h % qd, qd)]

\* autocorr.quantile([0.025, 0.975], axis = "columns") and
\* autocorr.median(axis = "columns"): per lag, over the draws
AutocorrQuantiles(autocorr) ==
  [l \in DOMAIN autocorr |->
     LET keys == [c \in DOMAIN autocorr[l] |-> CorrKey(autocorr[l][c])]
     IN [low |-> Quantile(autocorr[l], keys, 1, 40),
         median |-> Quantile(autocorr[l], keys, 1, 2),
         high |-> Quantile(autocorr[l], keys, 39, 40)]]

\* t = scipy.stats.t.ppf([0.025, 0.975], df = n - 2); null = t / sqrt(n - 2 + t^2):
\* the quantiles of Student's t are missing unless df > 0, and the band with them
NullBand(n) == [nan |-> ~(n - 2 > 0), df |-> n - 2]

(***************************************************************************)
(* The mixture over the weather effect                                     *)
(***************************************************************************)
\* (1 - weight) * first + weight * second, both densities of one family
Mixture(family, weight, first, second) ==
  [family |-> family, weight |-> weight, first |-> first, second |-> second]

\* the likelihood of weather_effect in the Stan program: lambda = 0.25,
\* log1m(lambda) + beta_lpdf(. | 2.0, 2.0), log(lambda) + beta_lpdf(. | 15.0, 2.0)
WeatherLikelihood ==
  Mixture("beta", Frac(1, 4),
          <<Frac(2, 1), Frac(2, 1)>>, <<Frac(15, 1), Frac(2, 1)>>)

\* the curve plot_weather_effect draws as "Prior": p = 0.15,
\* (1.0 - p) * gamma.pdf(x, 5.0, 0.0, 1.0 / 8.0) + p * gamma.pdf(x, 180.0, 0.0, 1.0 / 200.0),
\* each component with its shape and its scale
PlottedPrior ==
  Mixture("gamma", Frac(15, 100),
          <<Frac(5, 1), Frac(1, 8)>>, <<Frac(180, 1), Frac(1, 200)>>)

\* the rolling average, the prior curve, the autocorrelation and the null band
\* of plot_weather_effect
PlotWeatherEffect ==
  /\ pc = "idle"
  /\ \E n \in 1..MaxWeatherDays, shapes \in [1..NDraws -> WeatherShapes] :
       LET weather_effect == WeatherEffect(n, shapes)
       IN /\ args' = [op |-> "plot_weather_effect", weather_effect |-> weather_effect]
          /\ ret' = Return([fortnightly_average |->
                              MedianOverColumns(RollingMean(weather_effect, Window)),
                            prior |-> PlottedPrior,
                            autocorr |-> AutocorrByLag(weather_effect),
                            quantiles |->
                              AutocorrQuantiles(AutocorrByLag(weather_effect)),
                            null |-> NullBand(Len(weather_effect.index))])
  /\ pc' = "returned"
  /\ UNCHANGED <<engine, heap>>

(***************************************************************************)
(* Properties of the weather-effect statistics                             *)
(***************************************************************************)
WeatherSummarised == pc = "returned" /\ args.op = "plot_weather_effect"

\* C10: on a series of a single date the rolling average, the autocorrelation
\* and the null band are not computed: the call fails with a
\* DegenerateInputError instead of returning missing values
C10_SingleDateRaises ==
  (WeatherSummarised /\ Len(args.weather_effect.index) = 1)
    => ret.status = "DegenerateInputError"

\* C13: the curve drawn as "Prior" is the mixture the model declares as the
\* likelihood of the weather effect: the same family, the weight 0.25 on the
\* good-day component, and the components Beta(2, 2) and Beta(15, 2)
C13_PriorIsDeclaredMixture ==
  WeatherSummarised => ret.value.prior = WeatherLikelihood

(***************************************************************************)
(* plots.plot_optimal_production: quantiles and median of every date       *)
(***************************************************************************)
\* the course of a draw of the optimal production: its level and its daily
\* change, in kWh
OptimalDraws == { <<20, 0>>, <<10, 5>>, <<30, -5>> }

\* optimal_production: rows are the days from the first day on, columns the
\* draws
OptimalProduction(n, draws) ==
  Frame(DateRange(FirstDay, n),
        [r \in DOMAIN draws |-> r - 1],
        [d \in 1..n |-> [r \in DOMAIN draws |-> draws[r][1] + draws[r][2] * d]])

\* frame.quantile(q, axis = "columns") for q = qn / qd, of cells that are whole
\* numbers: per row, lo + weight * (hi - lo)
QuantileOverColumns(frame, qn, qd) ==
  [d \in DOMAIN frame.index |->
     LET row == frame.values[d]
         q == Quantile(row, [c \in DOMAIN row |-> Num(row[c])], qn, qd)
     IN Quot(q.lo * q.weight.den + q.weight.num * (q.hi - q.lo), q.weight.den)]

\* optimal_production.quantile([0.25, 0.75], axis = "columns") and
\* optimal_production.median(axis = "columns")
OptimalSummary(optimal_production) ==
  [low |-> QuantileOverColumns(optimal_production, 1, 4),
   high |-> QuantileOverColumns(optimal_production, 3, 4),
   median |-> QuantileOverColumns(optimal_production, 1, 2)]

\* the curves plot_optimal_production draws from an extracted series
PlotOptimalProduction ==
  /\ pc = "idle"
  /\ \E n \in 1..MaxDates, draws \in [1..NDraws -> OptimalDraws] :
       LET optimal_production == OptimalProduction(n, draws)
       IN /\ args' = [op |-> "plot_optimal_production",
                      optimal_production |-> optimal_production]
          /\ ret' = Return(OptimalSummary(optimal_production))
  /\ pc' = "returned"
  /\ UNCHANGED <<engine, heap>>

(***************************************************************************)
(* The order of the draws                                                  *)
(***************************************************************************)
OptimalSummarised == pc = "returned" /\ args.op = "plot_optimal_production"

\* the reorderings of n draws
Perms(n) == {pi \in [1..n -> 1..n] : \A i, j \in 1..n : i # j => pi[i] # pi[j]}

\* the series extracted from the posterior table with its rows, the draws, in
\* the order pi
PermuteColumns(frame, pi) ==
  Frame(frame.index,
        [c \in DOMAIN frame.columns |-> frame.columns[pi[c]]],
        [r \in DOMAIN frame.index |->
           [c \in DOMAIN frame.columns |-> frame.values[r][pi[c]]]])

\* two correlation coefficients of one value
SameCorr(a, b) ==
  /\ a.nan = b.nan
  /\ a.nan \/ (a.sgn = b.sgn /\ a.sqnum * b.sqden = b.sqnum * a.sqden)

\* two quantiles of correlation coefficients of one value
SameQuantile(a, b) ==
  /\ a.nan = b.nan
  /\ a.nan \/ (SameCorr(a.lo, b.lo) /\ SameCorr(a.hi, b.hi) /\ a.weight = b.weight)

\* C11: the summary statistics do not depend on the order of the draws: for
\* every reordering of the draws the 0.25 and 0.75 quantiles and the median of
\* every date, the median over the draws of the centered 14-day rolling mean,
\* the quantiles and the median over the draws of the autocorrelation at every
\* lag, and the peak-date histogram as a mapping from date to probability are
\* those of the original order
C11_DrawOrderInvariance ==
  /\ OptimalSummarised =>
       \A pi \in Perms(Len(args.optimal_production.columns)) :
          OptimalSummary(PermuteColumns(args.optimal_production, pi)) = ret.value
  /\ WeatherSummarised =>
       \A pi \in Perms(Len(args.weather_effect.columns)) :
          LET shuffled == PermuteColumns(args.weather_effect, pi)
              quantiles == AutocorrQuantiles(AutocorrByLag(shuffled))
          IN /\ MedianOverColumns(RollingMean(shuffled, Window))
                  = ret.value.fortnightly_average
             /\ \A l \in DOMAIN quantiles :
                  /\ SameQuantile(quantiles[l].low, ret.value.quantiles[l].low)
                  /\ SameQuantile(quantiles[l].median, ret.value.quantiles[l].median)
                  /\ SameQuantile(quantiles[l].high, ret.value.quantiles[l].high)
  /\ PeakDated =>
       \A pi \in Perms(Len(args.peaks)) :
          Range(max_date_hist(PermuteColumns(ReferenceCurves(args.peaks), pi),
                              Len(args.peaks)))
            = Range(ret.value)

\* on the first day the first draw lies above the second, 25 kWh over 15 kWh,
\* and the lower quartile is 15 + (25 - 15) / 4
C11_Witness ==
  /\ OptimalSummarised
  /\ args.optimal_production.values[1][1] = 25
  /\ args.optimal_production.values[1][2] = 15
  /\ ret.value.low[1] = Quot(70, 4)
  /\ ret.value.high[1] = Quot(90, 4)

(***************************************************************************)
(* modelling._stan_code: transformed parameters and generated quantities   *)
(*                                                                         *)
(* Angles are counted in quarter turns (pi / 2), so that their cosines and *)
(* sines are -1, 0 or 1, and the saturation in units of ln 2, so that the  *)
(* hyperbolic tangent is a quotient of whole numbers:                      *)
(* tanh(m * ln(2) / 2) = (2^m - 1) / (2^m + 1).  Stan computes in binary   *)
(* floating point: every result is rounded to the nearest number of        *)
(* Precision significant bits (53 in a double).                            *)
(***************************************************************************)
\* significant bits the model keeps of a floating-point number
Precision == 4

\* most of the saturation, in units of ln 2
MaxSaturation == 8

RECURSIVE Pow2(_)
Pow2(m) == IF m = 0 THEN 1 ELSE 2 * Pow2(m - 1)

\* n / d rounded to the nearest whole number, a tie to the even one
RoundHalfEven(n, d) ==
  LET q == n \div d
      r == n % d
  IN IF 2 * r > d \/ (2 * r = d /\ q % 2 = 1) THEN q + 1 ELSE q

\* the floating-point number nearest to n / d >= 0: the quotient is scaled
\* into [2^(Precision - 1), 2^Precision), rounded, and scaled back
RECURSIVE FloatRound(_, _)
FloatRound(n, d) ==
  IF n = 0 THEN Frac(0, 1)
  ELSE IF n >= d * Pow2(Precision)
       THEN LET r == FloatRound(n, 2 * d) IN Frac(2 * r.num, r.den)
  ELSE IF n < d * Pow2(Precision - 1)
       THEN LET r == FloatRound(2 * n, d) IN Frac(r.num, 2 * r.den)
  ELSE Frac(RoundHalfEven(n, d), 1)

\* cos and sin of a quarter turns
CosQ(a) == IF a % 4 = 0 THEN 1 ELSE IF a % 4 = 2 THEN -1 ELSE 0
SinQ(a) == IF a % 4 = 1 THEN 1 ELSE IF a % 4 = 3 THEN -1 ELSE 0

\* tanh(m * ln(2) / 2) for m >= 0, as the floating-point number nearest to it
Tanh(m) == FloatRound(Pow2(m) - 1, Pow2(m) + 1)

\* instantaneous_phase = 2 * pi() * t_year + phase, in quarter turns, for
\* t_year in quarters of a year
instantaneous_phase(p, t_year) == t_year + p.phase

\* seasonal_oscillation = tanh(saturation * 0.5 * (1 + cos(instantaneous_phase
\*   + beta_c1 * cos(instantaneous_phase) + beta_s1 * sin(instantaneous_phase))))
seasonal_oscillation(p, t_year) ==
  LET phi == instantaneous_phase(p, t_year)
      angle == phi + p.beta_c1 * CosQ(phi) + p.beta_s1 * SinQ(phi)
  IN Tanh(p.saturation * (1 + CosQ(angle)))

\* a + b * x in floating point, for whole numbers a, b >= 0 and a number x >= 0:
\* the product is rounded, then the sum
FloatAffine(a, b, x) ==
  LET product == FloatRound(b * x.num, x.den)
  IN FloatRound(a * product.den + product.num, product.den)

\* optimal_production = min + amplitude * seasonal_oscillation
optimal_production(p, t_year) ==
  FloatAffine(p.min, p.amplitude, seasonal_oscillation(p, t_year))

\* a plausible slip: the peak taken at half the saturation
generated_max_half(p) == FloatAffine(p.min, p.amplitude, Tanh(p.saturation))

\* generated quantities: max = min + amplitude * tanh(saturation)
generated_max(p) == FloatAffine(p.min, p.amplitude, Tanh(2 * p.saturation))

\* the parameters within their declared constraints: min, amplitude and
\* saturation not negative, phase within [-pi, pi], beta_c1 and beta_s1 free
ModelParameters ==
  [min : {0, 20}, amplitude : {0, 40}, phase : -2..2,
   beta_c1 : {-1, 0, 2}, beta_s1 : {-1, 0, 1},
   saturation : {0, 1, 3, MaxSaturation}]

\* t_year, in quarters of a year, within its declared constraint [0, 1]
QuarterYears == 0..4

\* the Stan program evaluates its transformed parameters and generated
\* quantities for one draw of the parameters and one day
EvaluateStanCode ==
  /\ pc = "idle"
  /\ \E p \in ModelParameters, t_year \in QuarterYears :
       /\ args' = [op |-> "stan_code", parameters |-> p, t_year |-> t_year]
       /\ ret' = Return([seasonal_oscillation |-> seasonal_oscillation(p, t_year),
                         optimal_production |-> optimal_production(p, t_year),
                         max |-> generated_max(p)])
  /\ pc' = "returned"
  /\ UNCHANGED <<engine, heap>>

(***************************************************************************)
(* Bounds of the seasonal curve                                            *)
(***************************************************************************)
Evaluated == pc = "returned" /\ args.op = "stan_code"

FracLeq(a, b) == a.num * b.den <= b.num * a.den

\* C12, as stated: the seasonal oscillation lies in [0, 1), below 1 for every
\* saturation, and the optimal production between min and max
C12_OscillationBelowOne ==
  Evaluated =>
    /\ FracLeq(Frac(0, 1), ret.value.seasonal_oscillation)
    /\ FracLess(ret.value.seasonal_oscillation, Frac(1, 1))
    /\ FracLeq(Frac(args.parameters.min, 1), ret.value.optimal_production)
    /\ FracLeq(ret.value.optimal_production, ret.value.max)

\* C12, amended: the seasonal oscillation lies in [0, 1], the bounds the
\* program declares, and reaches 1 where the hyperbolic tangent rounds to 1;
\* the optimal production lies between min and max, and max is min plus
\* amplitude times the rounded tanh(saturation), so never below min
C12_OscillationWithinUnitInterval ==
  Evaluated =>
    /\ FracLeq(Frac(0, 1), ret.value.seasonal_oscillation)
    /\ FracLeq(ret.value.seasonal_oscillation, Frac(1, 1))
    /\ FracLeq(Frac(args.parameters.min, 1), ret.value.optimal_production)
    /\ FracLeq(ret.value.optimal_production, ret.value.max)
    /\ FracLeq(Frac(args.parameters.min, 1), ret.value.max)
    /\ FracEq(ret.value.max,
              FloatAffine(args.parameters.min, args.parameters.amplitude,
                          Tanh(2 * args.parameters.saturation)))

\* at the top of the cosine, with the largest saturation, the oscillation is 1
\* and the optimal production is min + amplitude = max
C12_Witness ==
  /\ Evaluated
  /\ args.parameters.saturation = MaxSaturation
  /\ args.parameters.min = 20 /\ args.parameters.amplitude = 40
  /\ FracEq(ret.value.seasonal_oscillation, Frac(1, 1))
  /\ FracEq(ret.value.optimal_production, Frac(60, 1))
  /\ FracEq(ret.value.max, Frac(60, 1))

(***************************************************************************)
(* The caller's tables                                                     *)
(***************************************************************************)
\* C14: no stage changes what it was given: after a call of
\* extract_posterior_timeseries, returned or failed, the posterior table and
\* the table of dates hold what they held before; after a call of
\* compare_with_predictions the observations and the predictions do, and the
\* column of the predictions is still named "Production (kWh)"
C14_InputsUnchanged ==
  /\ Extracted => (heap.stan_fit = args.stan_fit /\ heap.df = args.df)
  /\ Compared =>
       /\ heap.observations = args.observations
       /\ heap.predictions = args.predictions
       /\ heap.predictions.columns = <<"Production (kWh)">>

\* an extraction that selects one of the two columns of the posterior table,
\* x.1 beside y.1, and returns
C14_Witness ==
  /\ Extracted
  /\ ret.status = "ok"
  /\ args.parameter = <<"x">>
  /\ args.stan_fit.columns = << <<"y", ".", "1">>, <<"x", ".", "1">> >>
  /\ ret.value.columns = <<0, 1>>
  /\ Len(ret.value.index) = 1
  /\ heap.stan_fit.columns = << <<"y", ".", "1">>, <<"x", ".", "1">> >>

(***************************************************************************)
(* From fit_model to the plots: the columns the Stan program produces and   *)
(* the columns the plot functions read                                     *)
(***************************************************************************)
\* parameters { ... }: one column each
StanParameters ==
  << <<"m", "i", "n">>,
     <<"a", "m", "p", "l", "i", "t", "u", "d", "e">>,
     <<"p", "h", "a", "s", "e">>,
     <<"b", "e", "t", "a", "_", "c", "1">>,
     <<"b", "e", "t", "a", "_", "s", "1">>,
     <<"s", "a", "t", "u", "r", "a", "t", "i", "o", "n">> >>

\* transformed parameters { ... }: vectors of N, one column "<name>.<n>" a day
StanTransformedParameters ==
  << <<"i", "n", "s", "t", "a", "n", "t", "a", "n", "e", "o", "u", "s", "_", "p", "h", "a", "s", "e">>,
     <<"s", "e", "a", "s", "o", "n", "a", "l", "_", "o", "s", "c", "i", "l", "l", "a", "t", "i", "o", "n">>,
     <<"o", "p", "t", "i", "m", "a", "l", "_", "p", "r", "o", "d", "u", "c", "t", "i", "o", "n">>,
     <<"w", "e", "a", "t", "h", "e", "r", "_", "e", "f", "f", "e", "c", "t">> >>

\* generated quantities { ... }
StanGeneratedQuantities == << <<"m", "a", "x">> >>

\* "<name>.<n>" for n below 10
Indexed(name, n) == name \o DOT \o <<DigitChars[n + 1]>>

\* the columns of the table fit_model returns for N days
StanColumns(N) ==
  LET vector(k) == [n \in 1..N |-> Indexed(StanTransformedParameters[k], n)]
  IN StanParameters \o vector(1) \o vector(2) \o vector(3) \o vector(4)
       \o StanGeneratedQuantities

\* a pandas.DatetimeIndex: it holds dates and has no attribute index
DatetimeIndex(dates) == [values |-> dates]

\* what each plot function asks of the posterior table, in the order of its
\* code: the series it extracts, each with the object it passes as df, and the
\* columns it reads by name
PlotFunctions == {"plot_optimal_production", "plot_weather_effect", "plot_annual_variation"}

PlotExtractions(plot, df) ==
  IF plot = "plot_optimal_production"
  THEN << [parameter |-> <<"E", "_", "o", "p", "t", "i", "m", "a", "l">>, df |-> DatetimeIndex(df.index)] >>
  ELSE IF plot = "plot_weather_effect"
  THEN << [parameter |-> <<"w", "e", "a", "t", "h", "e", "r", "_", "e", "f", "f", "e", "c", "t">>, df |-> DatetimeIndex(df.index)] >>
  ELSE << [parameter |-> <<"E", "_", "a", "v", "a", "i", "l", "a", "b", "l", "e", "_", "r", "e", "f">>,
           df |-> DatetimeIndex(ReferenceDates)],
          [parameter |-> <<"E", "_", "o", "p", "t", "i", "m", "a", "l", "_", "r", "e", "f">>,
           df |-> DatetimeIndex(ReferenceDates)] >>

PlotColumns(plot) ==
  IF plot = "plot_optimal_production"
  THEN << <<"E", "_", "o", "p", "t", "i", "m", "a", "l", "_", "m", "i", "n">>,
          <<"E", "_", "o", "p", "t", "i", "m", "a", "l", "_", "m", "a", "x">> >>
  ELSE IF plot = "plot_weather_effect" THEN << >>
  ELSE << <<"s", "a", "t", "u", "r", "a", "t", "i", "o", "n", "_", "l", "i", "m", "i", "t">>,
          <<"a", "m", "p", "l", "i", "t", "u", "d", "e">>, <<"m", "i", "n">>,
          <<"b", "e", "t", "a", "_", "c", "1">>, <<"b", "e", "t", "a", "_", "s", "1">> >>

\* the first of the results that is an exception, if there is one
RECURSIVE FirstFailure(_)
FirstFailure(results) ==
  IF results = <<>> THEN Return(<<>>)
  ELSE IF Head(results).status # "ok" THEN Head(results)
  ELSE FirstFailure(Tail(results))

\* the extractions and the reads of a plot function: the series, or the first
\* exception; stan_fit[name] raises KeyError when there is no such column
plot_reads(plot, df, stan_fit) ==
  LET asked == PlotExtractions(plot, df)
      series == [k \in DOMAIN asked |->
                   extract_posterior_timeseries(asked[k].parameter, asked[k].df, stan_fit)]
      columns == PlotColumns(plot)
      reads == [k \in DOMAIN columns |->
                  IF columns[k] \in Range(stan_fit.columns)
                  THEN Return(<<>>) ELSE Raise("KeyError")]
      failure == FirstFailure(series \o reads)
  IN IF failure.status # "ok" THEN failure
     ELSE Return([k \in DOMAIN series |-> series[k].value])

\* a plot function called with the observations and the table fit_model
\* returned for them
PlotPosterior ==
  /\ pc = "idle"
  /\ \E plot \in PlotFunctions, start \in FitStartDates,
        production \in SeqsOf(Productions \ {-1}, MaxFitDays) :
       LET df == Observations(start, production)
           stan_fit == PosteriorTable(StanColumns(Len(df.index)))
       IN /\ args' = [op |-> "plot", plot |-> plot, df |-> df, stan_fit |-> stan_fit]
          /\ ret' = plot_reads(plot, df, stan_fit)
  /\ pc' = "returned"
  /\ UNCHANGED <<engine, heap>>

(***************************************************************************)
(* Composition of the stages                                               *)
(***************************************************************************)
Plotted == pc = "returned" /\ args.op = "plot"

\* C15: for the table fit_model returns, every extraction of a plot function
\* succeeds with the dates it passed as row labels, and every column a plot
\* function reads, by prefix or by name, is one the Stan program produces
C15_StagesCompose ==
  Plotted =>
    /\ ret.status = "ok"
    /\ \A k \in DOMAIN ret.value :
         ret.value[k].index = PlotExtractions(args.plot, args.df)[k].df.values
    /\ \A k \in DOMAIN PlotExtractions(args.plot, args.df) :
         \E c \in DOMAIN args.stan_fit.columns :
            StartsWith(args.stan_fit.columns[c],
                       PlotExtractions(args.plot, args.df)[k].parameter \o DOT)
    /\ \A k \in DOMAIN PlotColumns(args.plot) :
         PlotColumns(args.plot)[k] \in Range(args.stan_fit.columns)

(***************************************************************************)
(* The calls, one after another                                            *)
(***************************************************************************)
\* the caller has taken the result; the next call starts from scratch
Finish ==
  /\ pc = "returned"
  /\ pc' = "idle"
  /\ args' = NoCall
  /\ ret' = NoResult
  /\ engine' = NoSubmission
  /\ heap' = NoObjects

Next ==
  \/ PlotPosterior
  \/ EvaluateStanCode
  \/ FitModel
  \/ StanBuild
  \/ StanSample
  \/ PlotWeatherEffect
  \/ ExtractPosteriorTimeseries
  \/ DateToOffsetInYear
  \/ PeakDateDistribution
  \/ CompareWithPredictions
  \/ PlotOptimalProduction
  \/ Finish

Spec == Init /\ [][Next]_vars

====
